---- MODULE Spec2Model ----
(***************************************************************************)
(* Model of codex-cli/src/utils/agent/mcp.ts: the MCP schema generator     *)
(* (getMcpToolDefinitions) and the MCP call router (handleMcpFunctionCall) *)
(* with its process-wide connection cache mcpClients.                      *)
(*                                                                         *)
(* handleMcpFunctionCall is an async function.  It runs synchronously up   *)
(* to its first await, so one invocation is modelled by the steps          *)
(*   Start        lines 42-79 (or 42-88 on a cache hit)                    *)
(*   ConnectOk    lines 80-88, resumed after `await client.connect`        *)
(*   ConnectFail  the rejection of `await client.connect` (not caught)     *)
(*   CallToolOk   lines 92-95, resumed after `await ...callTool`           *)
(*   CallToolFail lines 96-98, the catch block                             *)
(* and several invocations interleave only at those awaits.                *)
(*                                                                         *)
(* JavaScript strings that the code only passes along (rawArguments, the   *)
(* output text) are TLA+ strings; strings the code looks into or           *)
(* serialises (tool names, response texts, error messages) are sequences   *)
(* of one-character strings, so that join and JSON escaping are computed.  *)
(***************************************************************************)
EXTENDS Integers, Sequences, FiniteSets, TLC

(***************************************************************************)
(* Bounds of the model.                                                    *)
(***************************************************************************)
\* number of handleMcpFunctionCall invocations a behaviour may contain
MaxCalls == 2

Calls == 1 .. MaxCalls

(***************************************************************************)
(* JavaScript values.                                                      *)
(***************************************************************************)
JStr(s) == [t |-> "string", v |-> s]
\* numbers are held as a whole count of tenths: JNum(1) is 1, JTenths(13) is 1.3
JNum(n) == [t |-> "number", v |-> 10 * n]
JTenths(d) == [t |-> "number", v |-> d]
JBool(b) == [t |-> "boolean", v |-> b]
JObj(f) == [t |-> "object", v |-> f]      \* f: sequence of <<key, value>>
JArr(e) == [t |-> "array", v |-> e]
JNull == [t |-> "null", v |-> 0]
Undefined == [t |-> "undefined", v |-> 0]

\* an optional string argument: <<>> is `undefined`, <<s>> is the string s
None == <<>>
Some(s) == <<s>>

\* the own keys of a plain object, in insertion order
Keys(f) == [k \in 1 .. Len(f) |-> f[k][1]]

HasOwn(f, key) == \E k \in 1 .. Len(f) : f[k][1] = key

\* value of the own property `key` (the last one wins), Undefined if absent
GetOwn(f, key) ==
  IF HasOwn(f, key)
    THEN f[CHOOSE k \in 1 .. Len(f) :
                /\ f[k][1] = key
                /\ \A m \in (k + 1) .. Len(f) : f[m][1] # key][2]
    ELSE Undefined

\* the fields of f whose key is not in `drop`, in order (object rest)
RECURSIVE Rest(_, _)
Rest(f, drop) ==
  IF f = <<>> THEN <<>>
  ELSE IF Head(f)[1] \in drop THEN Rest(Tail(f), drop)
  ELSE <<Head(f)>> \o Rest(Tail(f), drop)

\* names every plain object inherits from Object.prototype
ObjectPrototypeKeys == { "constructor" }

(***************************************************************************)
(* Strings and JSON text.                                                  *)
(*                                                                         *)
(* A text is a sequence of chunks whose concatenation is the string; every *)
(* character that JSON escapes (quote, backslash, newline) is a chunk of   *)
(* its own, so escaping is computed chunk by chunk.                        *)
(***************************************************************************)
\* the JavaScript string of a text
RECURSIVE Flatten(_)
Flatten(cs) == IF cs = <<>> THEN "" ELSE Head(cs) \o Flatten(Tail(cs))

\* JSON.stringify's escaping of one chunk of a string
EscapeChar(c) ==
  CASE c = "\n" -> <<"\\", "n">>
    [] c = "\"" -> <<"\\", "\"">>
    [] c = "\\" -> <<"\\", "\\">>
    [] OTHER -> <<c>>

RECURSIVE Escape(_)
Escape(cs) == IF cs = <<>> THEN <<>> ELSE EscapeChar(Head(cs)) \o Escape(Tail(cs))

Quote(cs) == <<"\"">> \o Escape(cs) \o <<"\"">>

\* the text of a number that is a whole count of tenths (1.3 is 13 tenths)
NumberText(tenths) ==
  IF tenths % 10 = 0 THEN ToString(tenths \div 10)
  ELSE ToString(tenths \div 10) \o "." \o ToString(tenths % 10)

\* JSON.stringify of a value, as a text; object keys of the model hold no
\* character that needs escaping
RECURSIVE JSONstringify(_)
RECURSIVE StringifyFields(_)
RECURSIVE StringifyElems(_)
JSONstringify(j) ==
  CASE j.t = "string" -> Quote(j.v)
    [] j.t = "number" -> <<NumberText(j.v)>>
    [] j.t = "boolean" -> IF j.v THEN <<"true">> ELSE <<"false">>
    [] j.t = "null" -> <<"null">>
    [] j.t = "object" -> <<"{">> \o StringifyFields(j.v) \o <<"}">>
    [] j.t = "array" -> <<"[">> \o StringifyElems(j.v) \o <<"]">>

StringifyFields(f) ==
  IF f = <<>> THEN <<>>
  ELSE <<"\"", Head(f)[1], "\"", ":">> \o JSONstringify(Head(f)[2])
         \o (IF Len(f) > 1 THEN <<",">> ELSE <<>>) \o StringifyFields(Tail(f))

StringifyElems(e) ==
  IF e = <<>> THEN <<>>
  ELSE JSONstringify(Head(e))
         \o (IF Len(e) > 1 THEN <<",">> ELSE <<>>) \o StringifyElems(Tail(e))

\* Array.prototype.join("\n") of an array of values: an undefined or null
\* element contributes the empty string
JoinPart(x) == IF x.t \in {"undefined", "null"} THEN <<>> ELSE x.v

RECURSIVE JoinLines(_)
JoinLines(parts) ==
  IF parts = <<>> THEN <<>>
  ELSE IF Len(parts) = 1 THEN JoinPart(Head(parts))
  ELSE JoinPart(Head(parts)) \o <<"\n">> \o JoinLines(Tail(parts))

(***************************************************************************)
(* The argument strings of the model and what JSON.parse makes of them.    *)
(***************************************************************************)
echo == <<"echo">>
bar == <<"bar">>

RawEcho == "{\"name\":\"echo\",\"args\":{\"x\":1}}"
RawFlat == "{\"name\":\"t\",\"foo\":\"bar\"}"
RawArgsNull == "{\"name\":\"t\",\"args\":null,\"foo\":\"bar\"}"
RawArgsZero == "{\"name\":\"t\",\"args\":0,\"foo\":\"bar\"}"
RawNameNumber == "{\"name\":5,\"args\":{}}"
RawNoName == "{\"args\":{\"x\":1}}"

\* texts that are not JSON
MalformedRaws == { "", "not json", "{name:\"echo\"}", "{\"name\":\"echo\"" }

\* JSON texts whose value has no string-typed `name`
NoNameRaws == { "{}", RawNameNumber, RawNoName, "[1]", "5", "true", "\"s\"", "null" }

\* JSON texts of an object with a string-typed `name`
RoutableRaws == { RawEcho, RawFlat, RawArgsNull, RawArgsZero }

\* JSON.parse: [ok |-> TRUE, value |-> v], or ok = FALSE for a SyntaxError
JSONparse(text) ==
  CASE text \in MalformedRaws -> [ok |-> FALSE, value |-> Undefined]
    [] text = "{}" -> [ok |-> TRUE, value |-> JObj(<<>>)]
    [] text = RawEcho ->
         [ok |-> TRUE,
          value |-> JObj(<< <<"name", JStr(echo)>>,
                            <<"args", JObj(<< <<"x", JNum(1)>> >>)>> >>)]
    [] text = RawFlat ->
         [ok |-> TRUE,
          value |-> JObj(<< <<"name", JStr(<<"t">>)>>, <<"foo", JStr(bar)>> >>)]
    [] text = RawArgsNull ->
         [ok |-> TRUE,
          value |-> JObj(<< <<"name", JStr(<<"t">>)>>, <<"args", JNull>>,
                            <<"foo", JStr(bar)>> >>)]
    [] text = RawArgsZero ->
         [ok |-> TRUE,
          value |-> JObj(<< <<"name", JStr(<<"t">>)>>, <<"args", JNum(0)>>,
                            <<"foo", JStr(bar)>> >>)]
    [] text = RawNameNumber ->
         [ok |-> TRUE,
          value |-> JObj(<< <<"name", JNum(5)>>, <<"args", JObj(<<>>)>> >>)]
    [] text = RawNoName ->
         [ok |-> TRUE,
          value |-> JObj(<< <<"args", JObj(<< <<"x", JNum(1)>> >>)>> >>)]
    [] text = "[1]" -> [ok |-> TRUE, value |-> JArr(<<JNum(1)>>)]
    [] text = "5" -> [ok |-> TRUE, value |-> JNum(5)]
    [] text = "true" -> [ok |-> TRUE, value |-> JBool(TRUE)]
    [] text = "\"s\"" -> [ok |-> TRUE, value |-> JStr(<<"s">>)]
    [] text = "null" -> [ok |-> TRUE, value |-> JNull]

\* reading property `key` of a value, as `v[key]` or destructuring does:
\* own fields of an object, nothing else on the values of the model
\* (arrays, strings, numbers and booleans have no `name` or `args`)
GetProperty(v, key) ==
  IF v.t = "object" THEN GetOwn(v.v, key) ELSE Undefined

(***************************************************************************)
(* The inputs of the model.                                                *)
(***************************************************************************)
\* server names a caller may ask for; "constructor" is no key of any
\* registry below, but a name every plain object inherits
ServerNames == { "a", "b", "constructor" }

UrlA == "http://a.example/sse"
UrlB == "http://b.example/sse"

\* registries (the caller's `servers`), as key/url pairs in insertion order;
\* the last one holds a url that `new URL` rejects
Registries ==
  { <<>>,
    << <<"a", UrlA>> >>,
    << <<"a", UrlA>>, <<"b", UrlB>> >>,
    << <<"b", "">> >> }

\* new URL(url) throws a TypeError for a text that is no absolute URL
ValidUrl(url) == url \in { UrlA, UrlB }

\* rawArguments of the model
RawArguments ==
  { None } \cup { Some(r) : r \in MalformedRaws \cup NoNameRaws \cup RoutableRaws }

hi == <<"hi">>

\* responses of callTool: a content list, a content list with an element
\* without `text`, a response without `content`, a `content` that is no list
RespHi == JObj(<< <<"content", JArr(<< JObj(<< <<"text", JStr(hi)>> >>) >>)>> >>)
RespMixed ==
  JObj(<< <<"content",
            JArr(<< JObj(<< <<"text", JStr(<<"a">>)>> >>),
                    JObj(<< <<"type", JStr(<<"image">>)>> >>),
                    JObj(<< <<"text", JStr(<<"\"", "b", "\"">>)>> >>) >>)>> >>)
RespOpaque == JObj(<< <<"toolResult", JStr(<<"ok">>)>> >>)
RespContentText == JObj(<< <<"content", JStr(hi)>> >>)

Responses == { RespHi, RespMixed, RespOpaque, RespContentText }

boom == <<"boom">>
oops == <<"oops">>

\* values callTool may throw or reject with: an Error, a string, null
ToolErrors ==
  { [isError |-> TRUE, value |-> JStr(boom)],
    [isError |-> FALSE, value |-> JStr(oops)],
    [isError |-> FALSE, value |-> JNull] }

\* milliseconds between `start` and the end of the remote call
ElapsedMs == { 49, 50, 1250 }

(***************************************************************************)
(* State.                                                                  *)
(***************************************************************************)
VARIABLES
  servers,     \* the registry the caller passes to every invocation
  mcpClients,  \* the connection cache: own keys are server names, values clients
  clients,     \* every Client constructed so far (a client is its index here)
  call,        \* the invocations of handleMcpFunctionCall, by slot
  toolDefs     \* the latest call of getMcpToolDefinitions: argument and result

vars == <<servers, mcpClients, clients, call, toolDefs>>

\* how the callTool of an invocation ended: not (yet), resolved with a
\* response, or thrown/rejected with an error value
NoOutcome == [kind |-> "none", isError |-> FALSE, value |-> Undefined]
Resolved(response) == [kind |-> "resolved", isError |-> FALSE, value |-> response]
Threw(err) == [kind |-> "threw", isError |-> err.isError, value |-> err.value]

\* an invocation that has not been made yet.  client: the Client this
\* invocation constructed (0: none); callee: the client its callTool was
\* invoked on (0: none); remote, elapsedMs: what the transport did
IdleCall ==
  [pc |-> "idle", serverName |-> "", rawArguments |-> None, callId |-> "",
   toolName |-> <<>>, callArgs |-> Undefined, client |-> 0, callee |-> 0,
   remote |-> NoOutcome, elapsedMs |-> 0, result |-> <<>>, error |-> ""]

CallId(i) == "call_" \o ToString(i)

\* servers[serverName]: an own entry, a property inherited from
\* Object.prototype (truthy), or undefined
ServerEntry(registry, name) ==
  IF HasOwn(registry, name) THEN [kind |-> "own", url |-> GetOwn(registry, name)]
  ELSE IF name \in ObjectPrototypeKeys THEN [kind |-> "inherited", url |-> ""]
  ELSE [kind |-> "undefined", url |-> ""]

\* variant: the cache is read without regard to the server name, any cached
\* client answers
CacheEntry_AnyServer(cache, name) ==
  IF DOMAIN cache # {}
    THEN [kind |-> "client", id |-> cache[CHOOSE s \in DOMAIN cache : TRUE]]
  ELSE IF name \in ObjectPrototypeKeys THEN [kind |-> "inherited", id |-> 0]
  ELSE [kind |-> "undefined", id |-> 0]

\* mcpClients[serverName]: a cached client, a property inherited from
\* Object.prototype (truthy, and no client), or undefined
CacheEntry(cache, name) ==
  IF name \in DOMAIN cache THEN [kind |-> "client", id |-> cache[name]]
  ELSE IF name \in ObjectPrototypeKeys THEN [kind |-> "inherited", id |-> 0]
  ELSE [kind |-> "undefined", id |-> 0]

(***************************************************************************)
(* getMcpToolDefinitions.                                                  *)
(***************************************************************************)
\* registries handed to getMcpToolDefinitions: None is an absent argument;
\* the same two servers appear in both insertion orders
ToolRegistries ==
  { None } \cup { Some(r) : r \in Registries \cup { << <<"b", UrlB>>, <<"a", UrlA>> >> } }

\* lines 20-28: the parameter schema, the same for every server
parameters ==
  [type |-> "object",
   properties |->
     [name |-> [type |-> "string", description |-> "Tool name"],
      args |-> [type |-> "object", description |-> "Tool args"]],
   required |-> <<"name", "args">>,
   additionalProperties |-> FALSE]

\* variant: the descriptors are marked strict
getMcpToolDefinitions_Strict(registry) ==
  IF registry = None THEN <<>>
  ELSE [k \in 1 .. Len(registry[1]) |->
          [type |-> "function",
           name |-> registry[1][k][1],
           description |->
             "Call remote MCP server '" \o registry[1][k][1] \o "' tool",
           strict |-> TRUE,
           parameters |-> parameters]]

\* lines 11-30: one descriptor per entry of Object.entries(servers), in its
\* order; [] for an absent registry
getMcpToolDefinitions(registry) ==
  IF registry = None THEN <<>>
  ELSE [k \in 1 .. Len(registry[1]) |->
          [type |-> "function",
           name |-> Keys(registry[1])[k],
           description |->
             "Call remote MCP server '" \o Keys(registry[1])[k] \o "' tool",
           strict |-> FALSE,
           parameters |-> parameters]]

\* getMcpToolDefinitions has not been called
NoDefinitions == [called |-> FALSE, servers |-> None, result |-> <<>>]

\* a call of getMcpToolDefinitions(registry): it reads its argument only
GetToolDefinitions(registry) ==
  /\ toolDefs' = [called |-> TRUE, servers |-> registry,
                  result |-> getMcpToolDefinitions(registry)]
  /\ UNCHANGED <<servers, mcpClients, clients, call>>

(***************************************************************************)
(* The helpers of handleMcpFunctionCall.                                   *)
(***************************************************************************)
\* const paramsRaw = rawArguments ?? "{}"
paramsRaw(rawArguments) == IF rawArguments = None THEN "{}" ELSE rawArguments[1]

\* variant: the raw text is serialised as a JSON string before it is returned
formatRaw_Stringified(callId, raw) ==
  << [type |-> "function_call_output", call_id |-> callId,
      output |-> "\"" \o raw \o "\""] >>

formatRaw(callId, raw) ==
  << [type |-> "function_call_output", call_id |-> callId, output |-> raw] >>

\* variant: the call id is read from a slot shared by all invocations, which
\* holds the id of the earliest invocation still waiting for its tool
formatOutput_SharedCallId(callId, output, exit_code, duration_seconds) ==
  CHOOSE record \in
    { [type |-> "function_call_output",
       call_id |-> LET waiting == { j \in Calls : call[j].pc = "callTool" }
                   IN  IF waiting = {} THEN callId
                       ELSE call[CHOOSE j \in waiting :
                                   \A m \in waiting : j <= m].callId,
       output |-> Flatten(json)] :
      json \in
        { JSONstringify(
            JObj(<< <<"output", JStr(text)>>,
                    <<"metadata",
                      JObj(<< <<"exit_code", JNum(exit_code)>>,
                              <<"duration_seconds",
                                JTenths(duration_seconds)>> >>)>> >>)) :
          text \in {output} } } : TRUE

\* `text` is the value of `output` and `json` the serialised envelope, each
\* computed once
formatOutput(callId, output, exit_code, duration_seconds) ==
  CHOOSE record \in
    { [type |-> "function_call_output",
       call_id |-> callId,
       output |-> Flatten(json)] :
      json \in
        { JSONstringify(
            JObj(<< <<"output", JStr(text)>>,
                    <<"metadata",
                      JObj(<< <<"exit_code", JNum(exit_code)>>,
                              <<"duration_seconds",
                                JTenths(duration_seconds)>> >>)>> >>)) :
          text \in {output} } } : TRUE

\* Math.round((Date.now() - start) / 100) / 10, in tenths of a second
getDuration(elapsedMs) == (elapsedMs + 50) \div 100

\* variant: `args || other`, a falsy args falls back to the other fields
callArgsOf_Truthy(parsed) ==
  LET args == GetProperty(parsed, "args")
      other == JObj(Rest(parsed.v, {"name", "args"}))
  IN  IF args.t \in {"undefined", "null"} \/ args = JNum(0) THEN other ELSE args

\* const callArgs = args ?? other
callArgsOf(parsed) ==
  LET args == GetProperty(parsed, "args")
      other == JObj(Rest(parsed.v, {"name", "args"}))
  IN  IF args.t \in {"undefined", "null"} THEN other ELSE args

\* variant: the response is serialised whatever its shape
outputText_AlwaysJson(response) == JSONstringify(response)

\* Array.isArray(response.content) ? response.content.map(c => c.text).join("\n")
\*                                  : JSON.stringify(response)
outputText(response) ==
  LET content == GetProperty(response, "content")
  IN  IF content.t = "array"
        THEN JoinLines([k \in 1 .. Len(content.v) |->
                          GetProperty(content.v[k], "text")])
        ELSE JSONstringify(response)

MCPerror == <<"MCP error: ">>

\* String(err) of a thrown value that is no Error
StringOf(v) ==
  CASE v.t = "string" -> v.v
    [] v.t = "null" -> <<"null">>
    [] v.t = "undefined" -> <<"undefined">>

\* variant: String(err) for every thrown value, an Error included
msgOf_AlwaysString(err) ==
  IF err.isError THEN <<"Error: ">> \o err.value.v ELSE StringOf(err.value)

\* err instanceof Error ? err.message : String(err)
msgOf(err) == IF err.isError THEN err.value.v ELSE StringOf(err.value)

\* what calling `.callTool` on a value that is no client throws
NotAFunction ==
  [isError |-> TRUE,
   value |-> JStr(<<"mcpClients[serverName].callTool is not a function">>)]

(***************************************************************************)
(* The steps of handleMcpFunctionCall.                                     *)
(***************************************************************************)
\* variant: tool calls on one client are serialised; a call that finds the
\* client busy is queued and waits for the pending call to end
invokeCallTool_Serialised(c, cache) ==
  LET entry == CacheEntry(cache, c.serverName)
  IN  IF entry.kind = "client"
        THEN IF \E j \in Calls : call[j].pc = "callTool" /\ call[j].callee = entry.id
               THEN [c EXCEPT !.pc = "queued"]
               ELSE [c EXCEPT !.pc = "callTool", !.callee = entry.id]
        ELSE [c EXCEPT !.pc = "returned",
                       !.remote = Threw(NotAFunction),
                       !.result = << formatOutput(c.callId,
                                                  MCPerror \o msgOf(NotAFunction),
                                                  1, getDuration(0)) >>]

\* lines 83-91: record `start` and invoke callTool on mcpClients[serverName]
\* (the cache is read again here).  A cached client takes the call and the
\* invocation suspends; a value that is no client makes the call throw at
\* once, inside the try block.
invokeCallTool(c, cache) ==
  LET entry == CacheEntry(cache, c.serverName)
  IN  IF entry.kind = "client"
        THEN [c EXCEPT !.pc = "callTool", !.callee = entry.id]
        ELSE [c EXCEPT !.pc = "returned",
                       !.remote = Threw(NotAFunction),
                       !.result = << formatOutput(c.callId,
                                                  MCPerror \o msgOf(NotAFunction),
                                                  1, getDuration(0)) >>]

\* variant: the connection of a registered server is resolved first, before
\* the payload is looked at
handleMcpFunctionCall_ConnectFirst(i, serverName, rawArguments) ==
  /\ LET c0 == [IdleCall EXCEPT !.serverName = serverName,
                                !.rawArguments = rawArguments,
                                !.callId = CallId(i)]
         server == ServerEntry(servers, serverName)
     IN  IF /\ server.kind = "own"
            /\ ValidUrl(server.url)
            /\ CacheEntry(mcpClients, serverName).kind = "undefined"
           THEN /\ clients' = Append(clients, [server |-> serverName,
                                               state |-> "connecting"])
                /\ call' = [call EXCEPT ![i] =
                              [c0 EXCEPT !.pc = "connect",
                                         !.client = Len(clients) + 1]]
           ELSE /\ call' = [call EXCEPT ![i] =
                              [c0 EXCEPT !.pc = "returned",
                                         !.result = formatRaw(c0.callId,
                                                      paramsRaw(rawArguments))]]
                /\ UNCHANGED clients
  /\ UNCHANGED <<servers, mcpClients>>

\* lines 42-79, or 42-91 when the cache holds the server: the synchronous
\* part of an invocation in slot i, up to its first await
handleMcpFunctionCall(i, serverName, rawArguments) ==
  /\ LET c0 == [IdleCall EXCEPT !.serverName = serverName,
                                !.rawArguments = rawArguments,
                                !.callId = CallId(i)]
         raw == paramsRaw(rawArguments)
         passthrough == [c0 EXCEPT !.pc = "returned",
                                   !.result = formatRaw(c0.callId, raw)]
         server == ServerEntry(servers, serverName)
         p == JSONparse(raw)
         parsed == p.value
         toolName == GetProperty(parsed, "name")
         c1 == [c0 EXCEPT !.toolName = toolName.v,
                          !.callArgs = callArgsOf(parsed)]
     IN  IF server.kind = "undefined"
           THEN /\ call' = [call EXCEPT ![i] = passthrough]
                /\ UNCHANGED <<mcpClients, clients>>
         ELSE IF ~p.ok
           THEN /\ call' = [call EXCEPT ![i] = passthrough]
                /\ UNCHANGED <<mcpClients, clients>>
         ELSE IF parsed.t \in {"null", "undefined"}
           \* destructuring null throws, outside any try block
           THEN /\ call' = [call EXCEPT ![i] =
                              [c0 EXCEPT !.pc = "rejected",
                                         !.error = "TypeError: cannot destructure"]]
                /\ UNCHANGED <<mcpClients, clients>>
         ELSE IF toolName.t # "string"
           THEN /\ call' = [call EXCEPT ![i] = passthrough]
                /\ UNCHANGED <<mcpClients, clients>>
         ELSE IF CacheEntry(mcpClients, serverName).kind = "undefined"
           THEN IF ValidUrl(server.url)
                  THEN /\ clients' = Append(clients,
                                            [server |-> serverName,
                                             state |-> "connecting"])
                       /\ call' = [call EXCEPT ![i] =
                                     [c1 EXCEPT !.pc = "connect",
                                                !.client = Len(clients) + 1]]
                       /\ UNCHANGED mcpClients
                  \* new URL(...) throws, outside any try block
                  ELSE /\ clients' = Append(clients,
                                            [server |-> serverName,
                                             state |-> "new"])
                       /\ call' = [call EXCEPT ![i] =
                                     [c1 EXCEPT !.pc = "rejected",
                                                !.error = "TypeError: Invalid URL"]]
                       /\ UNCHANGED mcpClients
         ELSE /\ call' = [call EXCEPT ![i] = invokeCallTool(c1, mcpClients)]
              /\ UNCHANGED <<mcpClients, clients>>
  /\ UNCHANGED servers

\* variant: the connected client is used but not stored in the cache
ConnectOk_NoStore(i) ==
  /\ call[i].pc = "connect"
  /\ LET c == call[i]
     IN  /\ clients' = [clients EXCEPT ![c.client].state = "connected"]
         /\ call' = [call EXCEPT ![i].pc = "callTool", ![i].callee = c.client]
  /\ UNCHANGED <<servers, mcpClients>>

\* variant: the connected client is stored only when the server has no
\* entry yet, and the remote call is made on the invocation's own client
ConnectOk_CallsOwn(i) ==
  /\ call[i].pc = "connect"
  /\ LET c == call[i]
     IN  /\ clients' = [clients EXCEPT ![c.client].state = "connected"]
         /\ mcpClients' = mcpClients @@ (c.serverName :> c.client)
         /\ call' = [call EXCEPT ![i].pc = "callTool", ![i].callee = c.client]
  /\ UNCHANGED servers

\* lines 80-91: `await client.connect(transport)` resolved; the client is
\* stored in the cache and the remote call is made
ConnectOk(i) ==
  /\ call[i].pc = "connect"
  /\ LET c == call[i]
         cache == (c.serverName :> c.client) @@ mcpClients
     IN  /\ clients' = [clients EXCEPT ![c.client].state = "connected"]
         /\ mcpClients' = cache
         /\ call' = [call EXCEPT ![i] = invokeCallTool(c, cache)]
  /\ UNCHANGED servers

\* variant: a connect failure is caught and reported like a tool failure
ConnectFail_Caught(i) ==
  /\ call[i].pc = "connect"
  /\ clients' = [clients EXCEPT ![call[i].client].state = "failed"]
  /\ call' = [call EXCEPT
                ![i].pc = "returned",
                ![i].result = << formatOutput(call[i].callId,
                                              MCPerror \o <<"connect failed">>,
                                              1, getDuration(0)) >>]
  /\ UNCHANGED <<servers, mcpClients>>

\* line 79: `await client.connect(transport)` rejected; nothing catches it
ConnectFail(i) ==
  /\ call[i].pc = "connect"
  /\ clients' = [clients EXCEPT ![call[i].client].state = "failed"]
  /\ call' = [call EXCEPT ![i].pc = "rejected",
                          ![i].error = "connect failed"]
  /\ UNCHANGED <<servers, mcpClients>>

\* lines 92-95: callTool resolved with `response`
CallToolOk(i, response, elapsedMs) ==
  /\ call[i].pc = "callTool"
  /\ call' = [call EXCEPT
                ![i].pc = "returned",
                ![i].remote = Resolved(response),
                ![i].elapsedMs = elapsedMs,
                ![i].result = << formatOutput(call[i].callId, outputText(response),
                                              0, getDuration(elapsedMs)) >>]
  /\ UNCHANGED <<servers, mcpClients, clients>>

\* lines 96-98: callTool threw or rejected with `err`
CallToolFail(i, err, elapsedMs) ==
  /\ call[i].pc = "callTool"
  /\ call' = [call EXCEPT
                ![i].pc = "returned",
                ![i].remote = Threw(err),
                ![i].elapsedMs = elapsedMs,
                ![i].result = << formatOutput(call[i].callId, MCPerror \o msgOf(err),
                                              1, getDuration(elapsedMs)) >>]
  /\ UNCHANGED <<servers, mcpClients, clients>>

(***************************************************************************)
(* Specification Spec: up to MaxCalls invocations, interleaved at their    *)
(* awaits.  Slots are taken in order; the inputs are drawn from the        *)
(* Concurrent... sets.                                                     *)
(***************************************************************************)
ConcurrentRawArguments ==
  { None, Some("not json"), Some("null"), Some(RawEcho), Some(RawFlat) }
ConcurrentResponses == { RespHi, RespOpaque }
ConcurrentToolErrors == { [isError |-> TRUE, value |-> JStr(boom)] }
ConcurrentElapsedMs == { 50 }

Init ==
  /\ servers \in Registries
  /\ mcpClients = <<>>
  /\ clients = <<>>
  /\ call = [i \in Calls |-> IdleCall]
  /\ toolDefs = NoDefinitions

Start ==
  \E i \in Calls, n \in ServerNames, r \in ConcurrentRawArguments :
    /\ call[i].pc = "idle"
    /\ \A j \in 1 .. (i - 1) : call[j].pc # "idle"
    /\ handleMcpFunctionCall(i, n, r)
    /\ UNCHANGED toolDefs

Connected == \E i \in Calls : ConnectOk(i) /\ UNCHANGED toolDefs

ConnectFailed == \E i \in Calls : ConnectFail(i) /\ UNCHANGED toolDefs

ToolReturned ==
  \E i \in Calls, response \in ConcurrentResponses, ms \in ConcurrentElapsedMs :
    CallToolOk(i, response, ms) /\ UNCHANGED toolDefs

ToolFailed ==
  \E i \in Calls, err \in ConcurrentToolErrors, ms \in ConcurrentElapsedMs :
    CallToolFail(i, err, ms) /\ UNCHANGED toolDefs

Next ==
  \/ Start
  \/ Connected
  \/ ConnectFailed
  \/ ToolReturned
  \/ ToolFailed

Spec == Init /\ [][Next]_vars

(***************************************************************************)
(* Specification SpecLive: Spec with the transport completing what it was  *)
(* asked: a pending connect of any invocation eventually resolves or       *)
(* rejects, and so does a pending callTool of every invocation but the     *)
(* first, whose remote tool may never answer.  Once a promise settles, the *)
(* event loop resumes the awaiting invocation.                             *)
(***************************************************************************)
ConnectCompletes(i) == (ConnectOk(i) \/ ConnectFail(i)) /\ UNCHANGED toolDefs

ToolCompletes(i) ==
  /\ \/ \E response \in ConcurrentResponses, ms \in ConcurrentElapsedMs :
          CallToolOk(i, response, ms)
     \/ \E err \in ConcurrentToolErrors, ms \in ConcurrentElapsedMs :
          CallToolFail(i, err, ms)
  /\ UNCHANGED toolDefs

\* the invocation whose remote tool may hang
HungCall == {1}

SpecLive ==
  /\ Init
  /\ [][Next]_vars
  /\ \A i \in Calls : WF_vars(ConnectCompletes(i))
  /\ \A i \in Calls \ HungCall : WF_vars(ToolCompletes(i))

(***************************************************************************)
(* Specification SpecSeq: invocations made one after the other, each       *)
(* started after the one before has returned or rejected.  Slot 1 holds    *)
(* the current invocation; the inputs are drawn from the full sets.        *)
(* getMcpToolDefinitions is called in between, on any registry.            *)
(***************************************************************************)
\* Clients constructed in a sequential behaviour
MaxClients == 3

SeqStart ==
  \E n \in ServerNames, r \in RawArguments :
    /\ call[1].pc \in {"idle", "returned", "rejected"}
    /\ Len(clients) < MaxClients
    /\ handleMcpFunctionCall(1, n, r)
    /\ UNCHANGED toolDefs

SeqConnected == ConnectOk(1) /\ UNCHANGED toolDefs

SeqConnectFailed == ConnectFail(1) /\ UNCHANGED toolDefs

SeqToolReturned ==
  \E response \in Responses, ms \in ElapsedMs :
    CallToolOk(1, response, ms) /\ UNCHANGED toolDefs

SeqToolFailed ==
  \E err \in ToolErrors, ms \in ElapsedMs :
    CallToolFail(1, err, ms) /\ UNCHANGED toolDefs

\* getMcpToolDefinitions is called at any moment between the steps
SeqToolDefinitions == \E registry \in ToolRegistries : GetToolDefinitions(registry)

NextSeq ==
  \/ SeqToolDefinitions
  \/ SeqStart
  \/ SeqConnected
  \/ SeqConnectFailed
  \/ SeqToolReturned
  \/ SeqToolFailed

SpecSeq == Init /\ [][NextSeq]_vars

(***************************************************************************)
(* Vocabulary of the properties.                                           *)
(***************************************************************************)
\* an invocation that has been made and has ended
Returned(i) == call[i].pc = "returned"
Rejected(i) == call[i].pc = "rejected"

\* the raw argument string of invocation i, "{}" when it was absent
RawOf(i) == IF call[i].rawArguments = None THEN "{}" ELSE call[i].rawArguments[1]

\* invocation i returned exactly one record, whose output is `text`
ReturnedOutput(i, text) ==
  /\ Returned(i)
  /\ Len(call[i].result) = 1
  /\ call[i].result[1].output = text

\* the server name of invocation i is a key of the registry
KnownServer(i) == \E k \in 1 .. Len(servers) : servers[k][1] = call[i].serverName

\* the JSON text {"output":<output>,"metadata":{"exit_code":..,"duration_seconds":..}}
\* written out, `embedded` being the embedded output as it stands in a JSON string
Envelope(embedded, exitCode, duration) ==
  "{\"output\":\"" \o embedded \o "\",\"metadata\":{\"exit_code\":" \o exitCode
    \o ",\"duration_seconds\":" \o duration \o "}}"

\* the duration text expected for the elapsed times of the model
DurationText(ms) ==
  CASE ms = 0 -> "0" [] ms = 49 -> "0" [] ms = 50 -> "0.1" [] ms = 1250 -> "1.3"

\* the clients of server s on which connect was called, and those connected
ConnectCalls(s) ==
  { k \in DOMAIN clients : clients[k].server = s /\ clients[k].state # "new" }
Established(s) ==
  { k \in DOMAIN clients : clients[k].server = s /\ clients[k].state = "connected" }

(***************************************************************************)
(* C1.  Every invocation completes by returning exactly one record and     *)
(* never rejects.  Stated as: no invocation is ever rejected, and a        *)
(* returned one holds exactly one function_call_output record.             *)
(***************************************************************************)
C1_ExactlyOneRecordNeverRejects ==
  \A i \in Calls :
    /\ ~Rejected(i)
    /\ Returned(i) =>
         /\ Len(call[i].result) = 1
         /\ call[i].result[1].type = "function_call_output"

(***************************************************************************)
(* C2.  At most one connection is ever established per server name, also   *)
(* under concurrent first use.                                             *)
(***************************************************************************)
C2_AtMostOneConnectionPerServer ==
  \A s \in ServerNames : Cardinality(Established(s)) <= 1

(***************************************************************************)
(* C3.  Sequential invocations: once a connect for a server has succeeded, *)
(* the transport sees no further connect for that server; the connection   *)
(* is the server's only established one and is the cache entry, and an     *)
(* invocation that finds it cached constructs no client of its own.        *)
(***************************************************************************)
C3_SequentialConnectOnce ==
  /\ \A k \in DOMAIN clients :
       clients[k].state = "connected" =>
         /\ \A m \in DOMAIN clients : m > k => clients[m].server # clients[k].server
         /\ clients[k].server \in DOMAIN mcpClients
         /\ mcpClients[clients[k].server] = k
  /\ \A i \in Calls :
       (call[i].callee # 0 /\ call[i].client # 0) => call[i].callee = call[i].client

\* a later invocation has ended on a connection it did not establish (cache hit)
C3_Witness ==
  \E i \in Calls :
    /\ Returned(i)
    /\ call[i].client = 0
    /\ call[i].callee # 0
    /\ Cardinality(ConnectCalls(call[i].serverName)) = 1

(***************************************************************************)
(* C4.  The cache is modified only by insert-if-absent: an entry, once     *)
(* present, is never replaced by another connection nor removed.           *)
(***************************************************************************)
C4_InsertIfAbsentOnly ==
  [][\A s \in DOMAIN mcpClients :
       /\ s \in DOMAIN mcpClients'
       /\ mcpClients'[s] = mcpClients[s]]_vars

(***************************************************************************)
(* C5.  For a server name that is no key of the registry, the invocation   *)
(* returns one record whose output is the raw argument string verbatim     *)
(* ("{}" when absent).                                                     *)
(***************************************************************************)
C5_UnknownServerPassthrough ==
  \A i \in Calls :
    (call[i].pc # "idle" /\ ~KnownServer(i)) => ReturnedOutput(i, RawOf(i))

(***************************************************************************)
(* C6.  For a raw argument string that is not valid JSON, an invocation    *)
(* for a known server returns one record whose output is that string       *)
(* verbatim, and does not reject.                                          *)
(***************************************************************************)
C6_MalformedJsonPassthrough ==
  \A i \in Calls :
    \A text \in MalformedRaws :
      (call[i].pc # "idle" /\ KnownServer(i) /\ call[i].rawArguments = Some(text))
        => /\ ReturnedOutput(i, text)
           /\ call[i].client = 0
           /\ call[i].callee = 0

C6_Witness ==
  \E i \in Calls :
    /\ KnownServer(i)
    /\ call[i].rawArguments = Some("{\"name\":\"echo\"")
    /\ ReturnedOutput(i, "{\"name\":\"echo\"")

(***************************************************************************)
(* C7.  For a raw argument string that parses to a value without a         *)
(* string-typed `name`, an invocation for a known server returns one       *)
(* record whose output is the raw string verbatim, and does not reject.    *)
(***************************************************************************)
C7_NoToolNamePassthrough ==
  \A i \in Calls :
    (call[i].pc # "idle" /\ KnownServer(i) /\ RawOf(i) \in NoNameRaws)
      => ReturnedOutput(i, RawOf(i))

(***************************************************************************)
(* C8.  When the connection is available and callTool throws or rejects,   *)
(* the invocation returns exactly one record whose output is the JSON text *)
(* with metadata.exit_code = 1 and output "MCP error: " followed by the    *)
(* error's message, or by the string form of a thrown value that is no     *)
(* Error.                                                                  *)
(***************************************************************************)
\* the message expected for the error values of the model, written out
ExpectedMessage(remote) ==
  CASE remote.isError /\ remote.value = JStr(<<"boom">>) -> "boom"
    [] ~remote.isError /\ remote.value = JStr(<<"oops">>) -> "oops"
    [] ~remote.isError /\ remote.value = JNull -> "null"
    [] OTHER -> "mcpClients[serverName].callTool is not a function"

ExpectedFailure(remote, ms) ==
  Envelope("MCP error: " \o ExpectedMessage(remote), "1", DurationText(ms))

C8_RemoteFailureBecomesExitCode1 ==
  \A i \in Calls :
    (call[i].remote.kind = "threw" /\ call[i].callee # 0)
      => /\ ReturnedOutput(i, ExpectedFailure(call[i].remote, call[i].elapsedMs))
         /\ call[i].error = ""

\* callTool rejected with Error("boom") on a cached connection and on one
\* the invocation established itself
C8_Witness ==
  \E i \in Calls :
    /\ call[i].remote = Threw([isError |-> TRUE, value |-> JStr(boom)])
    /\ call[i].callee # 0
    /\ call[i].client = 0
    /\ ReturnedOutput(i,
         "{\"output\":\"MCP error: boom\",\"metadata\":{\"exit_code\":1,\"duration_seconds\":0.1}}")

(***************************************************************************)
(* C9.  When connect fails for a known, uncached server, the invocation is *)
(* rejected to its caller: it returns no record and never invokes          *)
(* callTool.                                                               *)
(***************************************************************************)
ConnectFailedFor(i) ==
  /\ call[i].client # 0
  /\ clients[call[i].client].state = "failed"

C9_ConnectFailureRejects ==
  \A i \in Calls :
    ConnectFailedFor(i)
      => /\ Rejected(i)
         /\ call[i].result = <<>>
         /\ call[i].callee = 0
         /\ call[i].remote = NoOutcome

\* a connect failed while another invocation for the same server was in flight
C9_Witness ==
  \E i, j \in Calls :
    /\ i # j
    /\ ConnectFailedFor(i)
    /\ Rejected(i)
    /\ call[j].serverName = call[i].serverName
    /\ call[j].pc \in {"callTool", "returned"}
    /\ call[j].callee # 0

(***************************************************************************)
(* C10.  When callTool succeeds, the invocation returns exactly one record *)
(* with exit_code = 0 whose embedded output is the newline-joined text of  *)
(* the content elements for a list-valued content, the JSON text of the    *)
(* whole response otherwise; no other path produces exit_code = 0 (the     *)
(* other returned outputs are the raw string or an exit_code = 1 text).    *)
(***************************************************************************)
\* the embedded output expected for the responses of the model, written out
\* as it stands inside the JSON string
ExpectedEmbedded(response) ==
  CASE response = RespHi -> "hi"
    [] response = RespMixed -> "a\\n\\n\\\"b\\\""
    [] response = RespOpaque -> "{\\\"toolResult\\\":\\\"ok\\\"}"
    [] response = RespContentText -> "{\\\"content\\\":\\\"hi\\\"}"

ExpectedSuccess(response, ms) ==
  Envelope(ExpectedEmbedded(response), "0", DurationText(ms))

C10_SuccessBecomesExitCode0 ==
  \A i \in Calls :
    /\ call[i].remote.kind = "resolved"
         => ReturnedOutput(i, ExpectedSuccess(call[i].remote.value, call[i].elapsedMs))
    /\ (Returned(i) /\ call[i].remote.kind = "threw")
         => ReturnedOutput(i, ExpectedFailure(call[i].remote, call[i].elapsedMs))
    /\ (Returned(i) /\ call[i].remote.kind = "none")
         => ReturnedOutput(i, RawOf(i))

\* the example: callTool answers {content:[{text:"hi"}]} to the echo call
C10_Witness ==
  \E i \in Calls :
       /\ call[i].rawArguments = Some(RawEcho)
       /\ call[i].remote = Resolved(RespHi)
       /\ ReturnedOutput(i,
            "{\"output\":\"hi\",\"metadata\":{\"exit_code\":0,\"duration_seconds\":0}}")

(***************************************************************************)
(* C11.  The arguments passed to the remote tool are the payload's `args`  *)
(* field whenever it is present, and otherwise the remaining top-level     *)
(* fields without `name` and `args`; the tool name passed is the payload's *)
(* `name`.                                                                 *)
(***************************************************************************)
\* invocation i has invoked callTool on a client
ToolInvoked(i) == call[i].callee # 0

\* the parsed payload of invocation i
PayloadOf(i) == JSONparse(RawOf(i)).value

\* as claimed: `args` is what is passed whenever the payload has the field
C11_ArgsWheneverPresent ==
  \A i \in Calls :
    (ToolInvoked(i) /\ HasOwn(PayloadOf(i).v, "args"))
      => call[i].callArgs = GetOwn(PayloadOf(i).v, "args")

\* the tool name and arguments expected for the payloads of the model,
\* written out
ExpectedToolName(raw) ==
  CASE raw = RawEcho -> <<"echo">>
    [] raw \in {RawFlat, RawArgsNull, RawArgsZero} -> <<"t">>

ExpectedArguments(raw) ==
  CASE raw = RawEcho -> JObj(<< <<"x", JNum(1)>> >>)
    [] raw = RawFlat -> JObj(<< <<"foo", JStr(<<"bar">>)>> >>)
    [] raw = RawArgsNull -> JObj(<< <<"foo", JStr(<<"bar">>)>> >>)
    [] raw = RawArgsZero -> JNum(0)

\* amended: `args` is passed when present and not null; a payload without
\* `args`, or with `args: null`, passes its remaining fields
C11_ArgsWhenPresentAndNotNull ==
  \A i \in Calls :
    ToolInvoked(i) =>
      /\ call[i].toolName = ExpectedToolName(RawOf(i))
      /\ call[i].callArgs = ExpectedArguments(RawOf(i))
      /\ LET payload == PayloadOf(i).v
             args == GetOwn(payload, "args")
         IN  /\ call[i].toolName = GetOwn(payload, "name").v
             /\ (HasOwn(payload, "args") /\ args # JNull)
                  => call[i].callArgs = args
             /\ (~HasOwn(payload, "args") \/ args = JNull)
                  => call[i].callArgs = JObj(Rest(payload, {"name", "args"}))

\* callTool was invoked for a payload whose `args` is the falsy value 0
C11_Witness ==
  \E i \in Calls :
    /\ ToolInvoked(i)
    /\ RawOf(i) = RawArgsZero
    /\ call[i].callArgs = JNum(0)

(***************************************************************************)
(* C12.  getMcpToolDefinitions returns an empty sequence for an absent     *)
(* registry, and otherwise one descriptor per registry key, in the         *)
(* registry's order, each with the key as name, type "function", strict =  *)
(* false and a parameter schema requiring exactly `name` and `args` with   *)
(* no additional properties; a call of it changes nothing else (the        *)
(* connection cache, the clients and the invocations stay as they are).    *)
(***************************************************************************)
\* the descriptor expected for a server name, written out
ExpectedDescriptor(name) ==
  [type |-> "function",
   name |-> name,
   description |-> IF name = "a" THEN "Call remote MCP server 'a' tool"
                                 ELSE "Call remote MCP server 'b' tool",
   strict |-> FALSE,
   parameters |->
     [type |-> "object",
      properties |->
        [name |-> [type |-> "string", description |-> "Tool name"],
         args |-> [type |-> "object", description |-> "Tool args"]],
      required |-> <<"name", "args">>,
      additionalProperties |-> FALSE]]

C12_DefinitionsShape ==
  toolDefs.called =>
    IF toolDefs.servers = None THEN toolDefs.result = <<>>
    ELSE LET registry == toolDefs.servers[1]
         IN  /\ Len(toolDefs.result) = Len(registry)
             /\ \A k \in 1 .. Len(registry) :
                  toolDefs.result[k] = ExpectedDescriptor(registry[k][1])

C12_ToolDefinitions ==
  /\ []C12_DefinitionsShape
  /\ [][toolDefs' # toolDefs => UNCHANGED <<servers, mcpClients, clients, call>>]_vars

\* the example: {b, a} gives the descriptors of "b" and "a" in that order,
\* while the cache holds a connection
C12_Witness ==
  /\ toolDefs.called
  /\ toolDefs.servers = Some(<< <<"b", UrlB>>, <<"a", UrlA>> >>)
  /\ Len(toolDefs.result) = 2
  /\ toolDefs.result[1].name = "b"
  /\ toolDefs.result[2].name = "a"
  /\ DOMAIN mcpClients # {}

(***************************************************************************)
(* C13.  Invocations for different server names are independent under any  *)
(* interleaving: a step of an invocation for server A changes no cache     *)
(* entry but A's, the client it constructs and the client it calls are     *)
(* A's, and what it returns is determined by its own arguments and by what *)
(* its own callTool did, whatever an invocation for B is doing.            *)
(***************************************************************************)
\* the invocation that took the step (every step moves exactly one)
Stepped(i) == call'[i] # call[i]

C13_OwnClientsOnly ==
  \A i \in Calls :
    /\ call[i].client # 0 => clients[call[i].client].server = call[i].serverName
    /\ call[i].callee # 0 => clients[call[i].callee].server = call[i].serverName
    /\ call[i].remote.kind = "resolved"
         => ReturnedOutput(i, ExpectedSuccess(call[i].remote.value, call[i].elapsedMs))
    /\ call[i].remote.kind = "threw"
         => ReturnedOutput(i, ExpectedFailure(call[i].remote, call[i].elapsedMs))

C13_OwnCacheEntryOnly ==
  \A s \in ServerNames :
    CacheEntry(mcpClients', s) # CacheEntry(mcpClients, s)
      => \E i \in Calls : Stepped(i) /\ call[i].serverName = s

C13_ServersIndependent ==
  /\ []C13_OwnClientsOnly
  /\ [][C13_OwnCacheEntryOnly]_vars

\* an invocation for "a" started and returned its tool's answer while an
\* earlier invocation for "b" was still waiting for its connect
C13_Witness ==
  /\ MaxCalls >= 2
  /\ call[1].serverName = "b"
  /\ call[1].pc = "connect"
  /\ call[2].serverName = "a"
  /\ call[2].remote = Resolved(RespHi)
  /\ Returned(2)
  /\ DOMAIN mcpClients = {"a"}

(***************************************************************************)
(* C14.  Every raw-passthrough outcome (unknown server name, malformed     *)
(* JSON, missing or non-string tool name) is decided before any connection *)
(* work: such an invocation constructs and connects no client, invokes no  *)
(* callTool, and its step leaves the connection cache and the clients      *)
(* unchanged.                                                              *)
(***************************************************************************)
\* the server name of invocation i is unknown, or its payload is malformed
\* or without a string-typed tool name
UnroutableIn(c) ==
  \/ ServerEntry(servers, c.serverName).kind = "undefined"
  \/ paramsRaw(c.rawArguments) \in MalformedRaws \cup NoNameRaws

\* invocation i returned its raw argument string
Passthrough(i) ==
  /\ Returned(i)
  /\ call[i].remote = NoOutcome
  /\ ReturnedOutput(i, RawOf(i))

C14_NoTransportUse ==
  \A i \in Calls :
    ((call[i].pc # "idle" /\ UnroutableIn(call[i])) \/ Passthrough(i))
      => /\ call[i].client = 0
         /\ call[i].callee = 0
         /\ call[i].pc \in {"returned", "rejected"}

C14_CacheUntouched ==
  \A i \in Calls :
    (Stepped(i) /\ UnroutableIn(call'[i]))
      => UNCHANGED <<mcpClients, clients>>

C14_PassthroughBeforeConnection ==
  /\ []C14_NoTransportUse
  /\ [][C14_CacheUntouched]_vars

\* a malformed payload for a registered server passed through while the
\* cache held that server's connection
C14_Witness ==
  \E i \in Calls :
    /\ Passthrough(i)
    /\ KnownServer(i)
    /\ RawOf(i) \in MalformedRaws
    /\ call[i].serverName \in DOMAIN mcpClients

(***************************************************************************)
(* C15.  If every transport operation of an invocation eventually          *)
(* completes, the invocation eventually returns or rejects.  An invocation *)
(* whose callTool never completes produces no output (there is no          *)
(* timeout), while invocations for other servers and for the same, cached  *)
(* server still complete.                                                  *)
(***************************************************************************)
InFlight(i) == call[i].pc \notin {"idle", "returned", "rejected"}
Ended(i) == call[i].pc \in {"returned", "rejected"}

\* an invocation waiting for callTool has produced nothing
C15_NoOutputWhilePending ==
  \A i \in Calls :
    call[i].pc = "callTool" => (call[i].result = <<>> /\ call[i].remote = NoOutcome)

C15_Completion ==
  /\ \A i \in Calls \ HungCall : InFlight(i) ~> Ended(i)
  /\ \A i \in HungCall : (call[i].pc = "connect") ~> (call[i].pc # "connect")
  /\ []C15_NoOutputWhilePending

\* the first invocation waits for its tool while a later one, on the same
\* cached connection, has returned
C15_Witness ==
  \E i \in Calls \ HungCall, h \in HungCall :
    /\ call[h].pc = "callTool"
    /\ call[i].callee = call[h].callee
    /\ call[i].client = 0
    /\ Returned(i)

(***************************************************************************)
(* C16.  A failed connect leaves no trace in the cache: after an           *)
(* invocation is rejected because connect failed, the cache has no entry   *)
(* for that server name, no client that is connecting or failed is ever    *)
(* stored, and the next routable invocation for that server constructs a   *)
(* new client and calls connect on it.                                     *)
(***************************************************************************)
\* the clients constructed for server s, in order of construction
ClientsOf(s) == { k \in DOMAIN clients : clients[k].server = s }

\* the latest connect attempt for server s failed
LastConnectFailed(s) ==
  /\ ClientsOf(s) # {}
  /\ clients[CHOOSE k \in ClientsOf(s) : \A m \in ClientsOf(s) : m <= k].state
       = "failed"

C16_NoTrace ==
  /\ \A s \in DOMAIN mcpClients :
       /\ clients[mcpClients[s]].server = s
       /\ clients[mcpClients[s]].state = "connected"
  /\ \A i \in Calls :
       (Rejected(i) /\ ConnectFailedFor(i))
         => CacheEntry(mcpClients, call[i].serverName).kind = "undefined"
  /\ \A s \in ServerNames :
       LastConnectFailed(s) => CacheEntry(mcpClients, s).kind = "undefined"

\* a step that starts a routable invocation for a server whose latest
\* connect failed constructs a client and suspends in its connect
C16_FreshConnect ==
  \A i \in Calls :
    ( /\ call[i].pc \in {"idle", "returned", "rejected"}
      /\ call'[i] # call[i]
      /\ LastConnectFailed(call'[i].serverName)
      /\ paramsRaw(call'[i].rawArguments) \in RoutableRaws )
      => /\ clients' = Append(clients, [server |-> call'[i].serverName,
                                         state |-> "connecting"])
         /\ call'[i].pc = "connect"
         /\ call'[i].client = Len(clients')
         /\ mcpClients' = mcpClients

C16_FailedConnectLeavesNoTrace ==
  /\ []C16_NoTrace
  /\ [][C16_FreshConnect]_vars

(***************************************************************************)
(* C17.  One invocation makes at most one connect attempt and at most one  *)
(* callTool call, without retry.  A callTool failure neither evicts nor    *)
(* replaces the cached connection: after an invocation has ended with      *)
(* exit_code 1 the connection it called is still the cache entry of its    *)
(* server, and the next invocation for that server calls it without        *)
(* connecting.                                                             *)
(***************************************************************************)
\* invocation i ended with exit_code 1
ExitCode1(i) == Returned(i) /\ call[i].remote.kind = "threw"

\* a running invocation keeps the client it constructed and the client it
\* called, and a step constructs at most one client
C17_SingleAttempt ==
  /\ Len(clients') <= Len(clients) + 1
  /\ \A i \in Calls :
       /\ call[i].pc = "connect"
            => /\ call'[i].pc \in {"connect", "callTool", "returned", "rejected"}
               /\ call'[i].client = call[i].client
               /\ call'[i].callee \in {0, call[i].client}
       /\ call[i].pc = "callTool"
            => /\ call'[i].pc \in {"callTool", "returned"}
               /\ call'[i].client = call[i].client
               /\ call'[i].callee = call[i].callee

\* the step in which callTool fails leaves cache and connections alone
C17_FailureKeepsCache ==
  \A i \in Calls :
    (call[i].pc = "callTool" /\ call'[i].remote.kind = "threw")
      => (mcpClients' = mcpClients /\ clients' = clients)

\* after exit_code 1 the called connection is the cache entry of the server
C17_StillCached ==
  \A i \in Calls :
    ExitCode1(i)
      => CacheEntry(mcpClients, call[i].serverName)
           = [kind |-> "client", id |-> call[i].callee]

\* an invocation started for a server right after one that ended with
\* exit_code 1 for it calls the same connection and constructs no client
C17_NextUsesSameConnection ==
  \A i, j \in Calls :
    ( /\ ExitCode1(j)
      /\ call[i].pc \in {"idle", "returned", "rejected"}
      /\ call'[i] # call[i]
      /\ call'[i].serverName = call[j].serverName
      /\ paramsRaw(call'[i].rawArguments) \in RoutableRaws )
      => /\ clients' = clients
         /\ call'[i].client = 0
         /\ call'[i].callee = call[j].callee
         /\ call'[i].pc = "callTool"

C17_NoRetryFailureKeepsConnection ==
  /\ [][C17_SingleAttempt]_vars
  /\ [][C17_FailureKeepsCache]_vars
  /\ []C17_StillCached
  /\ [][C17_NextUsesSameConnection]_vars

(***************************************************************************)
(* C18.  Under every interleaving, callTool for a server is invoked on a   *)
(* connection whose connect for that server has resolved and which is the  *)
(* cache entry of the server at the moment of the call; it is never        *)
(* invoked on a client that is still connecting or whose connect failed.   *)
(***************************************************************************)
\* the step in which invocation i invokes callTool
C18_CalledOnCacheEntry ==
  \A i \in Calls :
    (call[i].pc # "callTool" /\ call'[i].pc = "callTool")
      => /\ call'[i].callee \in DOMAIN clients'
         /\ clients'[call'[i].callee].server = call'[i].serverName
         /\ clients'[call'[i].callee].state = "connected"
         /\ CacheEntry(mcpClients', call'[i].serverName)
              = [kind |-> "client", id |-> call'[i].callee]

\* the client an invocation called is a connected client of its server
C18_CalleeConnected ==
  \A i \in Calls :
    /\ call[i].pc = "callTool" => call[i].callee # 0
    /\ call[i].callee # 0
         => /\ call[i].callee \in DOMAIN clients
            /\ clients[call[i].callee].server = call[i].serverName
            /\ clients[call[i].callee].state = "connected"

C18_CallToolOnEstablishedCacheEntry ==
  /\ [][C18_CalledOnCacheEntry]_vars
  /\ []C18_CalleeConnected

\* two overlapping invocations for one server wait for callTool on two
\* different connections, each the cache entry when it was called
C18_Witness ==
  \E i, j \in Calls :
    /\ i # j
    /\ call[i].pc = "callTool"
    /\ call[j].pc = "callTool"
    /\ call[i].serverName = call[j].serverName
    /\ call[i].callee # call[j].callee

(***************************************************************************)
(* C19.  Every record an invocation returns, on every path (raw string,    *)
(* success, remote failure) and with invocations overlapping under         *)
(* distinct call ids, has type "function_call_output" and the call_id of   *)
(* the request that produced it, never that of another request.            *)
(***************************************************************************)
C19_RecordsCarryOwnCallId ==
  \A i \in Calls :
    /\ call[i].pc # "idle" => call[i].callId = CallId(i)
    /\ \A k \in 1 .. Len(call[i].result) :
         /\ call[i].result[k].type = "function_call_output"
         /\ call[i].result[k].call_id = call[i].callId
         /\ \A j \in Calls \ {i} : call[i].result[k].call_id # CallId(j)

\* an invocation has returned the outcome of its tool while an earlier one
\* is still waiting for its own
C19_Witness ==
  \E i, j \in Calls :
    /\ i < j
    /\ call[i].pc = "callTool"
    /\ Returned(j)
    /\ call[j].remote.kind \in {"resolved", "threw"}
    /\ Len(call[j].result) = 1
    /\ call[j].result[1].call_id = CallId(j)

====
